---- MODULE Spec2Model ----
(***************************************************************************)
(* A model of token_rate_limiter/token_bucket.py: limit_and_tokenize, the  *)
(* Redis keyspace it reads and writes, the wall clock it samples and the   *)
(* external writer of the per-user limit override.                         *)
(*                                                                         *)
(* Units.  The wall clock (time.time()) is counted in hundredths of a      *)
(* second, the resolution of round(retry_after, 2).  Token amounts that    *)
(* the code holds as floats (tokens_used, refill, tokens_available) are    *)
(* counted in sixtieths of a token: with an integer elapsed and an integer *)
(* limit, (elapsed / 60.0) * tokens_per_minute is a whole number of        *)
(* sixtieths, so the arithmetic below is the exact real arithmetic the     *)
(* float code approximates.                                                *)
(***************************************************************************)
EXTENDS Integers, Sequences, FiniteSets, TLC

\* ---------------------------------------------------------------- constants

\* ticks of the wall clock per second: round(retry_after, 2) keeps hundredths
Centi == 100
\* (elapsed / 60.0) * tokens_per_minute: seconds per minute, and sixtieths per token
SecPerMin == 60
\* pipe.expire(usage_key, 120)
Ttl == 120

\* -------------------------------------------------------------------- bounds

\* calls begun in one behaviour
MaxCalls == 3
\* the wall clock stays below this many seconds
MaxClock == 125
\* where the refill of one stored record is followed second by second: the
\* wall clock stays below this many seconds
MaxRefillClock == 63

\* the instances of the service that may run a call
Procs == {1, 2}
\* user ids; the second one contains the ':' separator of the key templates
Users == {"bob", "config:bob"}
\* the token_ids arguments: opaque values, of lengths 0..2, two of length 1
TokenLists == {<<>>, <<7>>, <<8>>, <<7, 8>>}
\* the users and token lists of the calls that run concurrently
ConcUsers == {"bob"}
ConcTokenLists == {<<7>>, <<7, 8>>}
\* the default_tokens_per_minute arguments (positive, as the caller must pass)
DefaultLimits == {1}
\* the users that may have a limit override in the Limit Store
LimitUsers == {"bob"}
\* the strings the field "limit" of an override may hold
LimitStrs == {<<"2">>, <<"0">>, <<"-", "1">>, <<"x">>, <<>>}
\* the wall clock at the start, in ticks
StartClocks == {50}
\* the amounts of time that may pass in one step, in ticks
Delays == {5950, 6000}
\* where the wall clock may also go back: the amounts of time that may pass
\* and the amounts by which the clock may be set back in one step, in ticks
SkewDelays == {6000}
Setbacks == {6000}

\* where the refill of one stored record is followed: the tokens values of the
\* record at the start, in sixtieths of a token, the strings the override may
\* hold, the instance that runs the calls, the token_ids arguments (of lengths
\* 0..2), and the amounts of time that may pass in one step, in ticks
StoredTokens == {0, 1, 59, 60, 61, 120}
StoredLimitStrs == {<<"2">>}
RefillProcs == {1}
RefillTokenLists == {<<>>, <<7>>, <<7, 8>>}
RefillDelays == {1000, 2900}

\* ------------------------------------------------------------ optional values

None == <<>>
Some(v) == <<v>>
IsSome(m) == m # <<>>
Val(m) == m[1]

Max(a, b) == IF a >= b THEN a ELSE b

\* --------------------------------------------------------------- the Redis keys

\* config_key_template.format(user_id=user_id)
ConfigKey(u) == "ratelimit:config:" \o u
\* usage_key_template.format(user_id=user_id)
UsageKey(u) == "ratelimit:" \o u

Keys == {ConfigKey(u) : u \in Users} \cup {UsageKey(u) : u \in Users}

\* a Redis hash with the fields the program and the limit writer use, and the
\* key's expiration time (a tick of the wall clock)
NoHash == [limit |-> None, tokens |-> None, last_refill |-> None, expire_at |-> None]

\* ------------------------------------------------------------ pure functions

Digits == <<"0", "1", "2", "3", "4", "5", "6", "7", "8", "9">>
IsDigit(c) == \E i \in 1..10 : Digits[i] = c
DigitVal(c) == (CHOOSE i \in 1..10 : Digits[i] = c) - 1

RECURSIVE DigitsVal(_)
\* the value of a non-empty sequence of decimal digits
DigitsVal(s) ==
    IF Len(s) = 0 THEN 0
    ELSE 10 * DigitsVal(SubSeq(s, 1, Len(s) - 1)) + DigitVal(s[Len(s)])

\* int(limit_str): an optional sign and at least one decimal digit, else ValueError
IntParses(s) ==
    LET body == IF Len(s) > 0 /\ s[1] \in {"-", "+"} THEN Tail(s) ELSE s
    IN  Len(body) > 0 /\ \A i \in 1..Len(body) : IsDigit(body[i])
IntOf(s) ==
    IF s[1] = "-" THEN 0 - DigitsVal(Tail(s))
    ELSE IF s[1] = "+" THEN DigitsVal(Tail(s))
    ELSE DigitsVal(s)

\* ResolveLimit with the override ignored
ResolveLimitDefaultOnly(limit_str, dflt) == dflt

\* ResolveLimit with 0 instead of the default when int() raises
ResolveLimitZeroOnError(limit_str, dflt) ==
    IF ~IsSome(limit_str) THEN dflt
    ELSE IF Len(Val(limit_str)) = 0 THEN dflt
    ELSE IF IntParses(Val(limit_str)) THEN IntOf(Val(limit_str))
    ELSE 0

\* tokens_per_minute = int(limit_str) if limit_str else default, the default
\* again on ValueError/TypeError.  limit_str is what hget returned: None, or
\* the stored string (the empty string is falsy)
ResolveLimit(limit_str, dflt) ==
    IF ~IsSome(limit_str) THEN dflt
    ELSE IF Len(Val(limit_str)) = 0 THEN dflt
    ELSE IF IntParses(Val(limit_str)) THEN IntOf(Val(limit_str))
    ELSE dflt

\* tokens_used = float(tokens_str) if tokens_str else 0.0, in sixtieths.  The
\* stored string is the repr of the float written, which float() reads back
\* to the same number
ReadTokens(tokens_str) == IF IsSome(tokens_str) THEN Val(tokens_str) ELSE 0
\* last_refill = float(last_refill_str) if last_refill_str else now
ReadLastRefill(last_refill_str, now_s) ==
    IF IsSome(last_refill_str) THEN Val(last_refill_str) ELSE now_s

\* Refill with the rate taken per second instead of per minute
RefillPerSecond(used, last, now_s, tpm) ==
    Max(0, used - (now_s - last) * tpm * SecPerMin)

\* Refill guarded against a clock that went back: a negative elapsed counts as 0
RefillGuarded(used, last, now_s, tpm) == Max(0, used - Max(0, now_s - last) * tpm)

\* Refill with the refill added to the usage instead of taken from it
RefillAdded(used, last, now_s, tpm) == Max(0, used + (now_s - last) * tpm)

\* Refill without the floor of max(0, ...)
RefillNoFloor(used, last, now_s, tpm) == used - (now_s - last) * tpm

\* elapsed = now - last_refill; refill = (elapsed / 60.0) * tokens_per_minute;
\* tokens_used = max(0, tokens_used - refill).  In sixtieths of a token the
\* refill is elapsed * tokens_per_minute
Refill(used, last, now_s, tpm) == Max(0, used - (now_s - last) * tpm)

\* Exceeds with one token of slack above the limit
ExceedsWithSlack(used, count, tpm) == used + count * SecPerMin > (tpm + 1) * SecPerMin

\* Exceeds with >= in the place of >
ExceedsOrEqual(used, count, tpm) == used + count * SecPerMin >= tpm * SecPerMin

\* Exceeds with the usage left out of the comparison
ExceedsCountOnly(used, count, tpm) == count * SecPerMin > tpm * SecPerMin

\* tokens_used + token_count > tokens_per_minute
Exceeds(used, count, tpm) == used + count * SecPerMin > tpm * SecPerMin

\* n / d rounded to the nearest integer, ties to even (d > 0)
RoundHalfEven(n, d) ==
    LET q == n \div d
        r == n - q * d
    IN  IF 2 * r < d THEN q
        ELSE IF 2 * r > d THEN q + 1
        ELSE IF q % 2 = 0 THEN q ELSE q + 1

\* tokens_over = (tokens_used + token_count) - tokens_per_minute;
\* round((tokens_over / tokens_per_minute) * 60, 2), in hundredths of a second
\* (tpm # 0; tpm = 0 is the ZeroDivisionError of the caller)
RetryAfter(used, count, tpm) ==
    LET over == used + count * SecPerMin - tpm * SecPerMin
    IN  IF tpm > 0 THEN RoundHalfEven(over * Centi, tpm)
        ELSE RoundHalfEven((0 - over) * Centi, 0 - tpm)

\* max(0, tokens_per_minute - tokens_used), in sixtieths
TokensAvailable(used, tpm) == Max(0, tpm * SecPerMin - used)

\* what a call hands back: nothing yet, the token list, the rejection dict
\* or an exception
NoResult ==
    [kind |-> "none", tokens |-> <<>>, retry_after |-> 0, tokens_requested |-> 0,
     tokens_available |-> 0, user_token_limit |-> 0, error |-> ""]
Admitted(ids) == [NoResult EXCEPT !.kind = "admit", !.tokens = ids]
Raised(e) == [NoResult EXCEPT !.kind = "raise", !.error = e]
\* the dict of lines 53-59
Rejection(used, count, tpm) ==
    [NoResult EXCEPT !.kind = "reject", !.error = "Rate limit exceeded",
                     !.retry_after = RetryAfter(used, count, tpm),
                     !.tokens_requested = count,
                     !.tokens_available = TokensAvailable(used, tpm),
                     !.user_token_limit = tpm]

\* -------------------------------------------------------------------- state

VARIABLES
    clock,          \* time.time(), in ticks
    redis,          \* the keyspace: key -> hash
    call,           \* per instance: the locals of the call it runs
    ncalls,         \* calls begun so far
    admitted,       \* history: the admitted calls, in the order of their writes
                    \* (at: the tick of the write; seen: see Idle; read: the
                    \* fields read; stored: the tokens value written)
    rejected        \* history: per user, the last rejection since the last admit

vars == <<clock, redis, call, ncalls, admitted, rejected>>

\* the locals of limit_and_tokenize, under their names in the source; pc is the
\* position of the call.  began (the tick at which the call sampled the clock),
\* seen (how many admitted calls had written when it read the usage) and failed
\* (the store operation of this call that raised, "" if none did) are history
Idle ==
    [pc |-> "idle", user_id |-> "", token_ids |-> <<>>,
     default_tokens_per_minute |-> 0, now |-> 0, limit_str |-> None,
     tokens_per_minute |-> 0, tokens_str |-> None, last_refill_str |-> None,
     tokens_used |-> 0, last_refill |-> 0, result |-> NoResult,
     began |-> 0, seen |-> 0, failed |-> ""]

\* the call has ended with the exception that the store operation op raised
Failed(op) == [Idle EXCEPT !.pc = "done", !.result = Raised("RedisError"), !.failed = op]

\* the call has returned r: its locals are gone
Returned(r) == [Idle EXCEPT !.pc = "done", !.result = r]

Init ==
    /\ clock \in StartClocks
    /\ \E u \in LimitUsers, m \in {None} \cup {Some(v) : v \in LimitStrs} :
          redis = [k \in Keys |-> IF k = ConfigKey(u) THEN [NoHash EXCEPT !.limit = m]
                                   ELSE NoHash]
    /\ call = [p \in Procs |-> Idle]
    /\ ncalls = 0
    /\ admitted = <<>>
    /\ rejected = [u \in Users |-> None]

\* ------------------------------------------------------------------ the call

\* now = int(time.time()); token_count = len(token_ids)
Begin(p, u, ids, dflt) ==
    /\ call[p].pc = "idle"
    /\ ncalls < MaxCalls
    /\ call' = [call EXCEPT ![p] =
                  [Idle EXCEPT !.pc = "limit", !.user_id = u, !.token_ids = ids,
                               !.default_tokens_per_minute = dflt,
                               !.now = clock \div Centi, !.began = clock]]
    /\ ncalls' = ncalls + 1
    /\ UNCHANGED <<clock, redis, admitted, rejected>>

\* limit_str = redis_client.hget(config_key, "limit") and the try block
ReadLimit(p) ==
    /\ call[p].pc = "limit"
    /\ LET limit_str == redis[ConfigKey(call[p].user_id)].limit
       IN  call' = [call EXCEPT ![p].pc = "usage",
                                ![p].limit_str = limit_str,
                                ![p].tokens_per_minute =
                                    ResolveLimit(limit_str, call[p].default_tokens_per_minute)]
    /\ UNCHANGED <<clock, redis, ncalls, admitted, rejected>>

\* the first pipeline (both hget in one MULTI/EXEC) and the refill logic
ReadUsage(p) ==
    /\ call[p].pc = "usage"
    /\ LET h == redis[UsageKey(call[p].user_id)]
           used == ReadTokens(h.tokens)
           last == ReadLastRefill(h.last_refill, call[p].now)
       IN  call' = [call EXCEPT ![p].pc = "decide",
                                ![p].tokens_str = h.tokens,
                                ![p].last_refill_str = h.last_refill,
                                ![p].tokens_used =
                                    Refill(used, last, call[p].now, call[p].tokens_per_minute),
                                ![p].last_refill = call[p].now,
                                ![p].seen = Len(admitted)]
    /\ UNCHANGED <<clock, redis, ncalls, admitted, rejected>>

\* Persist with a quarter of the time to live
PersistShortTtl(h, used, last, t) ==
    [h EXCEPT !.tokens = Some(used), !.last_refill = Some(last),
              !.expire_at = Some(t + (Ttl \div 4) * Centi)]

\* Persist without the expire command
PersistNoExpire(h, used, last, t) ==
    [h EXCEPT !.tokens = Some(used), !.last_refill = Some(last)]

\* the hash after hset(usage_key, mapping={tokens, last_refill}) and
\* expire(usage_key, 120), run at tick t
Persist(h, used, last, t) ==
    [h EXCEPT !.tokens = Some(used), !.last_refill = Some(last),
              !.expire_at = Some(t + Ttl * Centi)]

\* Reject with the refilled usage written back (the working last_refill stored
\* on a rejection too)
RejectStoringRefill(p) ==
    LET c == call[p] IN
    /\ c.pc = "decide"
    /\ Exceeds(c.tokens_used, Len(c.token_ids), c.tokens_per_minute)
    /\ call' = [call EXCEPT ![p] =
                  Returned(IF c.tokens_per_minute = 0
                           THEN Raised("ZeroDivisionError")
                           ELSE Rejection(c.tokens_used, Len(c.token_ids),
                                          c.tokens_per_minute))]
    /\ redis' = [redis EXCEPT ![UsageKey(c.user_id)] =
                   Persist(@, c.tokens_used, c.last_refill, clock)]
    /\ UNCHANGED <<clock, ncalls, admitted, rejected>>

\* the branch of line 49 taken: the rejection dict is returned, or the
\* division by tokens_per_minute raises
Reject(p) ==
    LET c == call[p] IN
    /\ c.pc = "decide"
    /\ Exceeds(c.tokens_used, Len(c.token_ids), c.tokens_per_minute)
    /\ call' = [call EXCEPT ![p] =
                  Returned(IF c.tokens_per_minute = 0
                           THEN Raised("ZeroDivisionError")
                           ELSE Rejection(c.tokens_used, Len(c.token_ids),
                                          c.tokens_per_minute))]
    /\ rejected' =
         IF c.tokens_per_minute = 0 THEN rejected
         ELSE [rejected EXCEPT ![c.user_id] =
                 Some([count |-> Len(c.token_ids), tpm |-> c.tokens_per_minute,
                       at |-> c.began,
                       retry_after |-> RetryAfter(c.tokens_used, Len(c.token_ids),
                                                  c.tokens_per_minute)])]
    /\ UNCHANGED <<clock, redis, ncalls, admitted>>

\* Admit with the write made on the record as the store holds it at the write
\* (an atomic read-modify-write) instead of on the record the call read
AdmitOnCurrentRecord(p) ==
    LET c == call[p]
        h == redis[UsageKey(c.user_id)]
        used == Refill(ReadTokens(h.tokens), ReadLastRefill(h.last_refill, c.now),
                       c.now, c.tokens_per_minute)
    IN
    /\ c.pc = "decide"
    /\ ~Exceeds(c.tokens_used, Len(c.token_ids), c.tokens_per_minute)
    /\ redis' = [redis EXCEPT ![UsageKey(c.user_id)] =
                   Persist(@, used + Len(c.token_ids) * SecPerMin, c.last_refill, clock)]
    /\ call' = [call EXCEPT ![p] = Returned(Admitted(c.token_ids))]
    /\ admitted' = Append(admitted,
                     [user |-> c.user_id, now |-> c.now, at |-> clock,
                      count |-> Len(c.token_ids), tpm |-> c.tokens_per_minute,
                      seen |-> c.seen, read |-> <<c.tokens_str, c.last_refill_str>>,
                      stored |-> used + Len(c.token_ids) * SecPerMin])
    /\ rejected' = [rejected EXCEPT ![c.user_id] = None]
    /\ UNCHANGED <<clock, ncalls>>

\* the branch of line 49 not taken: tokens_used += token_count, the second
\* pipeline, return token_ids
Admit(p) ==
    LET c == call[p] IN
    /\ c.pc = "decide"
    /\ ~Exceeds(c.tokens_used, Len(c.token_ids), c.tokens_per_minute)
    /\ redis' = [redis EXCEPT ![UsageKey(c.user_id)] =
                   Persist(@, c.tokens_used + Len(c.token_ids) * SecPerMin,
                           c.last_refill, clock)]
    /\ call' = [call EXCEPT ![p] = Returned(Admitted(c.token_ids))]
    /\ admitted' = Append(admitted,
                     [user |-> c.user_id, now |-> c.now, at |-> clock,
                      count |-> Len(c.token_ids), tpm |-> c.tokens_per_minute,
                      seen |-> c.seen, read |-> <<c.tokens_str, c.last_refill_str>>,
                      stored |-> c.tokens_used + Len(c.token_ids) * SecPerMin])
    /\ rejected' = [rejected EXCEPT ![c.user_id] = None]
    /\ UNCHANGED <<clock, ncalls>>

\* the caller has taken the result; the instance is free for the next call
Return(p) ==
    /\ call[p].pc = "done"
    /\ call' = [call EXCEPT ![p] = Idle]
    /\ UNCHANGED <<clock, redis, ncalls, admitted, rejected>>

\* the state in which bob's usage record is the one an earlier admit left at
\* the first tick of the clock: tokens is at most the limit it was admitted
\* under, last_refill the timestamp of that tick, the key set to expire 120
\* seconds later
InitStored ==
    /\ clock \in StartClocks
    /\ \E m \in {None} \cup {Some(v) : v \in StoredLimitStrs}, t \in StoredTokens,
          dflt \in DefaultLimits :
          /\ t <= ResolveLimit(m, dflt) * SecPerMin
          /\ redis = [k \in Keys |->
                        IF k = ConfigKey("bob") THEN [NoHash EXCEPT !.limit = m]
                        ELSE IF k = UsageKey("bob")
                        THEN Persist(NoHash, t, clock \div Centi, clock)
                        ELSE NoHash]
    /\ call = [p \in Procs |-> Idle]
    /\ ncalls = 0
    /\ admitted = <<>>
    /\ rejected = [u \in Users |-> None]

\* ------------------------------------------------------- failures of the store

\* redis_client.hget of line 28 raises (the store is unreachable): the call is
\* outside the try block and nothing in limit_and_tokenize catches it
FailReadLimit(p) ==
    /\ call[p].pc = "limit"
    /\ call' = [call EXCEPT ![p] = Failed("limit")]
    /\ UNCHANGED <<clock, redis, ncalls, admitted, rejected>>

\* FailReadUsage with the failed read taken as "no usage": the call goes on
\* with tokens_used = 0
FailReadUsageAsNoUsage(p) ==
    /\ call[p].pc = "usage"
    /\ call' = [call EXCEPT ![p].pc = "decide", ![p].failed = "usage",
                             ![p].tokens_used = 0, ![p].last_refill = call[p].now,
                             ![p].seen = Len(admitted)]
    /\ UNCHANGED <<clock, redis, ncalls, admitted, rejected>>

\* pipe.execute() of line 38 raises: lines 40-71 are not run
FailReadUsage(p) ==
    /\ call[p].pc = "usage"
    /\ call' = [call EXCEPT ![p] = Failed("usage")]
    /\ UNCHANGED <<clock, redis, ncalls, admitted, rejected>>

\* pipe.execute() of line 69 raises: line 71 is not run.  The transaction was
\* either never run by the store, or run with its reply lost
FailWrite(p) ==
    LET c == call[p] IN
    /\ c.pc = "decide"
    /\ ~Exceeds(c.tokens_used, Len(c.token_ids), c.tokens_per_minute)
    /\ \E applied \in BOOLEAN :
          redis' = IF applied
                   THEN [redis EXCEPT ![UsageKey(c.user_id)] =
                           Persist(@, c.tokens_used + Len(c.token_ids) * SecPerMin,
                                   c.last_refill, clock)]
                   ELSE redis
    /\ call' = [call EXCEPT ![p] = Failed("write")]
    /\ UNCHANGED <<clock, ncalls, admitted, rejected>>

\* ----------------------------------------------------------- the environment

\* the keyspace at tick t: a key whose expiration time has come is gone
Expire(store, t) ==
    [k \in Keys |->
        IF IsSome(store[k].expire_at) /\ Val(store[k].expire_at) <= t
        THEN NoHash ELSE store[k]]

\* time passes
Tick(d) ==
    /\ d > 0
    /\ clock + d < MaxClock * Centi
    /\ clock' = clock + d
    /\ redis' = Expire(redis, clock + d)
    /\ UNCHANGED <<call, ncalls, admitted, rejected>>

\* the keyspace after the wall clock of the service was set back by d: the
\* store counts a key's time to live on its own, so what is left of it stays
Shifted(store, d) ==
    [k \in Keys |->
        IF IsSome(store[k].expire_at)
        THEN [store[k] EXCEPT !.expire_at = Some(Val(store[k].expire_at) - d)]
        ELSE store[k]]

\* the wall clock is set back (clock skew, a reset of the system clock):
\* time.time() of line 24 is not monotonic
SetBack(d) ==
    /\ d > 0
    /\ clock - d >= 0
    /\ clock' = clock - d
    /\ redis' = Shifted(redis, d)
    /\ UNCHANGED <<call, ncalls, admitted, rejected>>

\* ------------------------------------------------------------ specifications

\* no call is running: every earlier call has returned
Quiet == \A q \in Procs : call[q].pc = "idle"

\* a call is begun while no other call runs
BeginAlone(p, u, ids, dflt) == Quiet /\ Begin(p, u, ids, dflt)

\* time passes between two calls (a call is short against the delays)
Wait(d) == Quiet /\ Tick(d)

\* calls run one at a time; the wall clock never goes back; a user's override
\* is what the Limit Store held at the start, until its key is gone
NextSeq ==
    \/ \E p \in Procs, u \in Users, ids \in TokenLists, dflt \in DefaultLimits :
          BeginAlone(p, u, ids, dflt)
    \/ \E p \in Procs : ReadLimit(p)
    \/ \E p \in Procs : ReadUsage(p)
    \/ \E p \in Procs : Reject(p)
    \/ \E p \in Procs : Admit(p)
    \/ \E p \in Procs : Return(p)
    \/ \E d \in Delays : Wait(d)

Spec == Init /\ [][NextSeq]_vars

\* calls of the instances interleave at their store interactions; the wall
\* clock never goes back
NextConc ==
    \/ \E p \in Procs, u \in ConcUsers, ids \in ConcTokenLists, dflt \in DefaultLimits :
          Begin(p, u, ids, dflt)
    \/ \E p \in Procs : ReadLimit(p)
    \/ \E p \in Procs : ReadUsage(p)
    \/ \E p \in Procs : Reject(p)
    \/ \E p \in Procs : Admit(p)
    \/ \E p \in Procs : Return(p)
    \/ \E d \in Delays : Tick(d)

SpecConc == Init /\ [][NextConc]_vars

\* time passes between two calls while the stored record is followed
RefillWait(d) ==
    /\ clock + d < MaxRefillClock * Centi
    /\ Wait(d)

\* the wall clock is set back between two calls
Regress(d) == Quiet /\ SetBack(d)

\* calls of the instances interleave at their store interactions (the calls
\* are short against the delays), and between calls the wall clock may go back
NextSkew ==
    \/ \E p \in Procs, u \in ConcUsers, ids \in TokenLists, dflt \in DefaultLimits :
          Begin(p, u, ids, dflt)
    \/ \E p \in Procs : ReadLimit(p)
    \/ \E p \in Procs : ReadUsage(p)
    \/ \E p \in Procs : Reject(p)
    \/ \E p \in Procs : Admit(p)
    \/ \E p \in Procs : Return(p)
    \/ \E d \in SkewDelays : Wait(d)
    \/ \E d \in Setbacks : Regress(d)

SpecSkew == Init /\ [][NextSkew]_vars

\* calls run one at a time on a usage record that is there at the start, the
\* clock moving in steps well below a minute
NextRefill ==
    \/ \E p \in RefillProcs, u \in ConcUsers, ids \in RefillTokenLists,
          dflt \in DefaultLimits :
          BeginAlone(p, u, ids, dflt)
    \/ \E p \in Procs : ReadLimit(p)
    \/ \E p \in Procs : ReadUsage(p)
    \/ \E p \in Procs : Reject(p)
    \/ \E p \in Procs : Admit(p)
    \/ \E p \in Procs : Return(p)
    \/ \E d \in RefillDelays : RefillWait(d)

SpecRefill == InitStored /\ [][NextRefill]_vars

\* calls run one at a time against a store whose operations may fail
NextFail ==
    \/ \E p \in Procs, u \in ConcUsers, ids \in ConcTokenLists, dflt \in DefaultLimits :
          BeginAlone(p, u, ids, dflt)
    \/ \E p \in Procs : ReadLimit(p)
    \/ \E p \in Procs : FailReadLimit(p)
    \/ \E p \in Procs : ReadUsage(p)
    \/ \E p \in Procs : FailReadUsage(p)
    \/ \E p \in Procs : Reject(p)
    \/ \E p \in Procs : Admit(p)
    \/ \E p \in Procs : FailWrite(p)
    \/ \E p \in Procs : Return(p)
    \/ \E d \in Delays : Wait(d)

SpecFail == Init /\ [][NextFail]_vars

\* --------------------------------------------------------------------- claims

\* the step in which the call of instance p decides and returns
Decides(p) == call[p].pc = "decide" /\ call'[p].pc = "done"

RECURSIVE AdmittedSum(_, _, _)
\* the tokens admitted for user u by the entries i..j of the history
AdmittedSum(u, i, j) ==
    IF i > j THEN 0
    ELSE (IF admitted[j].user = u THEN admitted[j].count ELSE 0)
         + AdmittedSum(u, i, j - 1)

\* the entries i and j are admits of user u, and every admit of u from i to j
\* was decided under the same limit L > 0
FixedLimitWindow(u, i, j) ==
    /\ admitted[i].user = u
    /\ admitted[j].user = u
    /\ admitted[i].tpm > 0
    /\ \A k \in i..j : admitted[k].user = u => admitted[k].tpm = admitted[i].tpm

\* C1 as stated, the times of the admitted calls taken on the wall clock:
\* with calls run one at a time under a fixed limit L > 0, the tokens admitted
\* for a user within d seconds are at most L + L*d/60.
C1_BoundInWallClockTime ==
    \A u \in Users : \A i \in 1..Len(admitted) : \A j \in i..Len(admitted) :
        FixedLimitWindow(u, i, j) =>
            AdmittedSum(u, i, j) * SecPerMin * Centi
                <= admitted[i].tpm * SecPerMin * Centi
                   + admitted[i].tpm * (admitted[j].at - admitted[i].at)

\* C1 amended: with calls run one at a time under a fixed limit L > 0 and a
\* clock that never goes back, the tokens admitted for a user by calls whose
\* timestamps now = int(time.time()) lie d seconds apart are at most
\* L + L*d/60, and those admitted under one timestamp never exceed L, whether
\* or not the usage key expired in between.
C1_BoundInTimestamps ==
    \A u \in Users : \A i \in 1..Len(admitted) : \A j \in i..Len(admitted) :
        FixedLimitWindow(u, i, j) =>
            AdmittedSum(u, i, j) * SecPerMin
                <= admitted[i].tpm * SecPerMin
                   + admitted[i].tpm * (admitted[j].now - admitted[i].now)

\* two admits of a user under one limit, at different timestamps, that take
\* all the bound allows
C1_Witness ==
    \E u \in Users : \E i \in 1..Len(admitted) : \E j \in i..Len(admitted) :
        /\ FixedLimitWindow(u, i, j)
        /\ admitted[j].now > admitted[i].now
        /\ AdmittedSum(u, i, j) * SecPerMin
             = admitted[i].tpm * SecPerMin
               + admitted[i].tpm * (admitted[j].now - admitted[i].now)

\* C2: an admit returns token_ids unchanged and leaves the user's usage record
\* at tokens = max(0, stored_tokens - refill) + len(token_ids), last_refill =
\* now (an absent field read as 0, resp. now), with the key's expiration set
\* 120 seconds ahead.
C2_AdmitEffect ==
    [][\A p \in Procs :
         (Decides(p) /\ call'[p].result.kind = "admit") =>
            LET c == call[p]
                h == redis[UsageKey(c.user_id)]
                stored == IF IsSome(h.tokens) THEN Val(h.tokens) ELSE 0
                last == IF IsSome(h.last_refill) THEN Val(h.last_refill) ELSE c.now
                refill == (c.now - last) * c.tokens_per_minute
                after == redis'[UsageKey(c.user_id)]
            IN  /\ call'[p].result.tokens = c.token_ids
                /\ after.tokens = Some(Max(0, stored - refill) + Len(c.token_ids) * SecPerMin)
                /\ after.last_refill = Some(c.now)
                /\ after.expire_at = Some(clock + Ttl * Centi)
                /\ after.limit = h.limit
                /\ \A k \in Keys \ {UsageKey(c.user_id)} : redis'[k] = redis[k]]_vars

\* a call has just admitted a non-empty request on top of usage that the
\* refill had not yet cleared
C2_Witness ==
    /\ \E p \in Procs : call[p].pc = "done" /\ call[p].result.kind = "admit"
                        /\ Len(call[p].result.tokens) > 0
    /\ Len(admitted) >= 2
    /\ LET e == admitted[Len(admitted)]
           f == admitted[Len(admitted) - 1]
       IN  /\ e.user = f.user
           /\ e.now > f.now
           /\ e.count > 0
           /\ Val(redis[UsageKey(e.user)].tokens) > e.count * SecPerMin

\* C3: a call that returns a rejection leaves the whole keyspace, and so the
\* user's usage record and its expiration, exactly as it was.
C3_RejectionChangesNothing ==
    [][\A p \in Procs :
         (Decides(p) /\ call'[p].result.kind = "reject") => redis' = redis]_vars

\* a user was rejected at a timestamp later than the stored last_refill
C3_Witness ==
    \E u \in Users :
        /\ IsSome(rejected[u])
        /\ IsSome(redis[UsageKey(u)].last_refill)
        /\ Val(redis[UsageKey(u)].last_refill) < Val(rejected[u]).at \div Centi

\* the call of instance p repeats the request of the user's last rejection,
\* under the same limit, exactly retry_after after the rejected call, with no
\* admit for the user in between
IsRetry(p) ==
    LET c == call[p] IN
    /\ IsSome(rejected[c.user_id])
    /\ Val(rejected[c.user_id]).count = Len(c.token_ids)
    /\ Val(rejected[c.user_id]).tpm = c.tokens_per_minute
    /\ c.began = Val(rejected[c.user_id]).at + Val(rejected[c.user_id]).retry_after

\* C4: the same request made exactly retry_after seconds after a rejection,
\* with no admit for the user in between and under the same limit, is admitted.
C4_RetryAfterAdmits ==
    [][\A p \in Procs :
         (Decides(p) /\ IsRetry(p)) => call'[p].result.kind = "admit"]_vars

\* C5: a call is rejected exactly when post-refill tokens_used + len(token_ids)
\* is strictly greater than tokens_per_minute, and admitted when they are equal.
C5_RejectedIffStrictlyGreater ==
    [][\A p \in Procs :
         Decides(p) =>
            LET c == call[p]
                total == c.tokens_used + Len(c.token_ids) * SecPerMin
            IN  /\ call'[p].result.kind = "reject"
                     <=> total > c.tokens_per_minute * SecPerMin
                /\ total = c.tokens_per_minute * SecPerMin
                     => call'[p].result.kind = "admit"]_vars

\* the stored "limit" strings that int() turns into a number <= 0, and those it
\* refuses
NonPositiveStrs == {<<"0">>, <<"-", "1">>}
UnparseableStrs == {<<"x">>, <<>>}

\* C6: when the stored limit is absent, unparseable or non-positive, the call
\* uses default_tokens_per_minute as tokens_per_minute and ends with an admit
\* or a rejection, never with another failure.
C6_NonPositiveFallsBack ==
    \A p \in Procs :
        /\ (call[p].pc \in {"usage", "decide"}
            /\ (~IsSome(call[p].limit_str)
                \/ Val(call[p].limit_str) \in UnparseableStrs \cup NonPositiveStrs))
           => call[p].tokens_per_minute = call[p].default_tokens_per_minute
        /\ call[p].pc = "done" => call[p].result.kind \in {"admit", "reject"}

\* C7: a call made while the stored limit is absent or unparseable decides,
\* reports and stores what the default limit gives: the rejection payload and
\* the stored usage are those computed from the record it read with
\* default_tokens_per_minute, and no failure is raised.
C7_ConfigFallback ==
    [][\A p \in Procs :
         (Decides(p) /\ (~IsSome(call[p].limit_str)
                         \/ Val(call[p].limit_str) \in UnparseableStrs)) =>
            LET c == call[p]
                d == c.default_tokens_per_minute
                n == Len(c.token_ids)
                stored == IF IsSome(c.tokens_str) THEN Val(c.tokens_str) ELSE 0
                last == IF IsSome(c.last_refill_str) THEN Val(c.last_refill_str)
                        ELSE c.now
                used == Max(0, stored - (c.now - last) * d)
                over == used + n * SecPerMin - d * SecPerMin
                r == call'[p].result
            IN  IF over > 0
                THEN /\ r.kind = "reject"
                     /\ r.user_token_limit = d
                     /\ r.tokens_requested = n
                     /\ r.tokens_available = Max(0, d * SecPerMin - used)
                     /\ d * r.retry_after - over * Centi \in -(d \div 2)..(d \div 2)
                     /\ redis' = redis
                ELSE /\ r.kind = "admit"
                     /\ r.tokens = c.token_ids
                     /\ redis'[UsageKey(c.user_id)].tokens = Some(used + n * SecPerMin)
                     /\ redis'[UsageKey(c.user_id)].last_refill = Some(c.now)]_vars

\* a call that read an unparseable limit is about to decide on usage left by
\* an earlier admit
C7_Witness ==
    \E p \in Procs :
        /\ call[p].pc = "decide"
        /\ call[p].limit_str = Some(<<"x">>)
        /\ call[p].tokens_used > 0

\* C8: a call whose post-refill tokens_used is already at or above
\* tokens_per_minute is rejected, whatever token_ids holds and however long it is.
C8_AtLimitAlwaysRejects ==
    [][\A p \in Procs :
         (Decides(p) /\ call[p].tokens_used >= call[p].tokens_per_minute * SecPerMin)
            => call'[p].result.kind = "reject"]_vars

\* the entries i < j of the history are admits of one user under one limit
\* L > 0, decided for one timestamp and written at one tick
SameInstant(i, j) ==
    /\ admitted[i].user = admitted[j].user
    /\ admitted[i].tpm = admitted[j].tpm
    /\ admitted[i].tpm > 0
    /\ admitted[i].now = admitted[j].now
    /\ admitted[i].at = admitted[j].at

\* C9: the calls that admit more than tokens_per_minute at one instant are
\* calls that raced: whenever the admits of a user at one instant exceed the
\* limit, one of them read the usage record before an earlier one of them
\* wrote it.
C9_OverAdmissionIsTheRace ==
    \A i \in 1..Len(admitted) : \A j \in i..Len(admitted) :
        (/\ \A k \in i..j : admitted[k].user = admitted[i].user => SameInstant(i, k)
         /\ admitted[j].user = admitted[i].user
         /\ AdmittedSum(admitted[i].user, i, j) > admitted[i].tpm)
        => \E m \in i..j : \E k \in (m + 1)..j :
              /\ admitted[m].user = admitted[i].user
              /\ admitted[k].user = admitted[i].user
              /\ admitted[k].seen < m

\* two calls for one user were admitted at one instant, the second having read
\* the usage before the first wrote it, and together they exceed the limit
C9_Witness ==
    \E i \in 1..Len(admitted) : \E j \in (i + 1)..Len(admitted) :
        /\ SameInstant(i, j)
        /\ admitted[j].seen < i
        /\ admitted[i].count + admitted[j].count > admitted[i].tpm

\* C10: no step changes a key that holds a user's limit override: no field is
\* written to it, it gets no expiration and it is not deleted, so the override
\* stays readable with the same value.
C10_LimitStoreReadOnly ==
    [][\A u \in Users :
         IsSome(redis[ConfigKey(u)].limit)
            => redis'[ConfigKey(u)] = redis[ConfigKey(u)]]_vars

\* C11: a call in which the read of the limit, the read of the usage or the
\* write of the usage raised has ended, with that exception and with neither
\* token_ids nor the rejection dict; in particular a call whose usage read
\* failed never reaches the decision, and one whose write failed returns no
\* tokens even when the store did apply the write.
C11_StoreFailureIsDistinct ==
    \A p \in Procs :
        call[p].failed # "" =>
            /\ call[p].pc = "done"
            /\ call[p].result.kind = "raise"
            /\ call[p].result.error \notin {"Rate limit exceeded", "ZeroDivisionError"}
            /\ call[p].result.tokens = <<>>

\* the write of an otherwise admitted call failed after the store had applied
\* it: the usage is recorded, the caller got the exception
C11_Witness ==
    \E p \in Procs :
        /\ call[p].failed = "write"
        /\ call[p].pc = "done"
        /\ admitted = <<>>
        /\ IsSome(redis[UsageKey("bob")].tokens)

\* C12: no negative debt.  In every reachable state, whatever time has passed
\* (the clock set back included), whatever calls were admitted or rejected and
\* however the concurrent calls interleave, the post-refill tokens_used a call
\* holds for its decision is >= 0 and every tokens value in the store is >= 0.
C12_NoNegativeDebt ==
    /\ \A p \in Procs : call[p].pc = "decide" => call[p].tokens_used >= 0
    /\ \A k \in Keys : IsSome(redis[k].tokens) => Val(redis[k].tokens) >= 0

\* a call is about to decide on usage that the refill has taken to the floor:
\* the record it read held less than the refill of the time elapsed
C12_Witness ==
    \E p \in Procs :
        /\ call[p].pc = "decide"
        /\ call[p].tokens_used = 0
        /\ call[p].tokens_per_minute > 0
        /\ IsSome(call[p].tokens_str)
        /\ Val(call[p].tokens_str)
             < (call[p].now - Val(call[p].last_refill_str)) * call[p].tokens_per_minute

\* the call of p holds, for its decision, the refill of a stored record under
\* a limit L > 0, at a timestamp not before the record's last_refill
HoldsRefill(p) ==
    /\ call[p].pc = "decide"
    /\ IsSome(call[p].tokens_str)
    /\ call[p].tokens_per_minute > 0
    /\ call[p].now >= Val(call[p].last_refill_str)

\* the post-refill tokens_used of the record the call of p read, e seconds
\* after the call's timestamp
RefillLater(p, e) ==
    Refill(Val(call[p].tokens_str), Val(call[p].last_refill_str),
           call[p].now + e, call[p].tokens_per_minute)

\* C13: monotonic refill.  For a fixed limit > 0 and a fixed stored record,
\* the post-refill tokens_used at a larger elapsed time is at most the one a
\* call holds for its decision (elapsed >= 0), less when that is above 0, and
\* never below 0; so when the request of the call passes the test of line 49,
\* it passes it at every larger elapsed time.
C13_MonotonicRefill ==
    \A p \in Procs :
        HoldsRefill(p) =>
            LET n == Len(call[p].token_ids)
                L == call[p].tokens_per_minute
                passes == ~Exceeds(call[p].tokens_used, n, L)
            IN  /\ call[p].tokens_used >= 0
                /\ RefillLater(p, 0) = call[p].tokens_used
                /\ \A e \in 1..MaxRefillClock :
                      LET before == RefillLater(p, e - 1)
                          after == RefillLater(p, e)
                      IN  /\ after <= before
                          /\ before > 0 => after < before
                          /\ after >= 0
                          /\ passes => ~Exceeds(after, n, L)

\* a call holds a refill that is below the stored tokens and still above 0,
\* and its request exceeds the limit now but not one second later
C13_Witness ==
    \E p \in Procs :
        /\ HoldsRefill(p)
        /\ call[p].tokens_used > 0
        /\ call[p].tokens_used < Val(call[p].tokens_str)
        /\ Exceeds(call[p].tokens_used, Len(call[p].token_ids), call[p].tokens_per_minute)
        /\ ~Exceeds(RefillLater(p, 1), Len(call[p].token_ids), call[p].tokens_per_minute)

\* C14: every rejection reports tokens_requested = len(token_ids),
\* user_token_limit = the tokens_per_minute of the call and tokens_available =
\* max(0, tokens_per_minute - tokens_used), tokens_used being the post-refill
\* usage without the request; tokens_available is >= 0 and less than
\* tokens_requested.
C14_RejectionPayload ==
    [][\A p \in Procs :
         (Decides(p) /\ call'[p].result.kind = "reject") =>
            LET c == call[p]
                r == call'[p].result
            IN  /\ r.tokens_requested = Len(c.token_ids)
                /\ r.user_token_limit = c.tokens_per_minute
                /\ r.tokens_available
                     = Max(0, c.tokens_per_minute * SecPerMin - c.tokens_used)
                /\ r.tokens_available >= 0
                /\ r.tokens_requested * SecPerMin > r.tokens_available]_vars

\* what hget returned for "limit" is there and int() takes it to a number > 0
ValidOverride(m) == IsSome(m) /\ IntParses(Val(m)) /\ IntOf(Val(m)) > 0

\* C15: a call that reads from the Limit Store a limit that is present and
\* parses as a positive number takes that number as tokens_per_minute, and it,
\* not default_tokens_per_minute, is the rate of the refill, the limit of the
\* admit/reject decision and the user_token_limit of a rejection.
C15_ValidOverrideIsTheLimit ==
    [][\A p \in Procs :
         LET c == call[p]
             L == IntOf(Val(c.limit_str))
         IN  /\ (c.pc = "limit" /\ call'[p].pc = "usage"
                    /\ ValidOverride(redis[ConfigKey(c.user_id)].limit))
                   => call'[p].tokens_per_minute
                        = IntOf(Val(redis[ConfigKey(c.user_id)].limit))
             /\ (c.pc = "usage" /\ call'[p].pc = "decide" /\ ValidOverride(c.limit_str))
                   => LET h == redis[UsageKey(c.user_id)]
                          stored == IF IsSome(h.tokens) THEN Val(h.tokens) ELSE 0
                          last == IF IsSome(h.last_refill) THEN Val(h.last_refill)
                                  ELSE c.now
                      IN  call'[p].tokens_used = Max(0, stored - (c.now - last) * L)
             /\ (Decides(p) /\ ValidOverride(c.limit_str))
                   => /\ call'[p].result.kind = "reject"
                           <=> c.tokens_used + Len(c.token_ids) * SecPerMin > L * SecPerMin
                      /\ call'[p].result.kind \in {"admit", "reject"}
                      /\ call'[p].result.kind = "reject"
                           => call'[p].result.user_token_limit = L]_vars

\* a call was rejected under an override that is not the default, on usage
\* that the refill at the override's rate had not cleared
C15_Witness ==
    \E p \in Procs :
        /\ call[p].pc = "done"
        /\ call[p].result.kind = "reject"
        /\ call[p].result.user_token_limit \notin DefaultLimits
        /\ call[p].result.tokens_available > 0
        /\ call[p].result.tokens_available < call[p].result.user_token_limit * SecPerMin

\* the limit of the call of p is L > 0 and every admit of its user so far was
\* decided under L
FixedLimitSoFar(p) ==
    /\ call[p].tokens_per_minute > 0
    /\ \A i \in 1..Len(admitted) :
          admitted[i].user = call[p].user_id => admitted[i].tpm = call[p].tokens_per_minute

\* the admits of user u so far, as indices of the history
AdmitsOf(u) == {i \in 1..Len(admitted) : admitted[i].user = u}

\* the post-refill tokens_used the call of p computes in a system whose usage
\* records never expire: there the record of the user is the one the user's
\* last admit wrote, however long ago, and absent only if there was none
RetainedUsed(p) ==
    LET c == call[p]
        is == AdmitsOf(c.user_id)
    IN  IF is = {} THEN Refill(ReadTokens(None), ReadLastRefill(None, c.now), c.now,
                               c.tokens_per_minute)
        ELSE LET e == admitted[CHOOSE i \in is : \A j \in is : j <= i]
             IN  Refill(e.stored, e.now, c.now, c.tokens_per_minute)

\* C16: expiry is equivalent to a full refill.  With calls run one at a time,
\* a clock that never goes back and a fixed limit L > 0, every call returns
\* what it returns in the system whose usage records never expire - the same
\* decision, the same rejection payload - and an admit writes the same record,
\* so the two systems go on agreeing.
C16_ExpiryIsFullRefill ==
    [][\A p \in Procs :
         (Decides(p) /\ FixedLimitSoFar(p)) =>
            LET c == call[p]
                n == Len(c.token_ids)
                used == RetainedUsed(p)
            IN  IF Exceeds(used, n, c.tokens_per_minute)
                THEN /\ call'[p].result = Rejection(used, n, c.tokens_per_minute)
                     /\ redis' = redis
                ELSE /\ call'[p].result = Admitted(c.token_ids)
                     /\ redis'[UsageKey(c.user_id)].tokens = Some(used + n * SecPerMin)
                     /\ redis'[UsageKey(c.user_id)].last_refill = Some(c.now)]_vars

\* a call is about to decide a non-empty request after the record its user's
\* earlier admit wrote has expired
C16_Witness ==
    \E p \in Procs :
        /\ call[p].pc = "decide"
        /\ FixedLimitSoFar(p)
        /\ AdmitsOf(call[p].user_id) # {}
        /\ ~IsSome(call[p].tokens_str)
        /\ Len(call[p].token_ids) > 0

\* the call of p read a record that holds at most L tokens, L > 0 its limit,
\* and whose last_refill is 60 seconds or more before the call's timestamp
MinuteElapsed(p) ==
    /\ HoldsRefill(p)
    /\ Val(call[p].tokens_str) <= call[p].tokens_per_minute * SecPerMin
    /\ call[p].now - Val(call[p].last_refill_str) >= SecPerMin

\* C17: full refill after one minute.  Under a limit L > 0, a call that finds
\* stored tokens_used <= L and a last_refill at least 60 seconds old decides
\* on post-refill tokens_used = 0, and admits its request if that has at most
\* L tokens.
C17_FullRefillAfterOneMinute ==
    [][\A p \in Procs :
         (Decides(p) /\ MinuteElapsed(p)) =>
            /\ call[p].tokens_used = 0
            /\ Len(call[p].token_ids) <= call[p].tokens_per_minute
                  => call'[p].result = Admitted(call[p].token_ids)]_vars

\* a call is about to decide a request of L tokens on a record that held L
\* tokens exactly 60 seconds before
C17_Witness ==
    \E p \in Procs :
        /\ MinuteElapsed(p)
        /\ Val(call[p].tokens_str) = call[p].tokens_per_minute * SecPerMin
        /\ call[p].now - Val(call[p].last_refill_str) = SecPerMin
        /\ Len(call[p].token_ids) = call[p].tokens_per_minute

RacedWithLastWriter(p) ==
    /\ call[p].pc = "decide"
    /\ Len(admitted) = call[p].seen + 1
    /\ admitted[Len(admitted)].user = call[p].user_id
    /\ admitted[Len(admitted)].seen = call[p].seen
    /\ admitted[Len(admitted)].read = <<call[p].tokens_str, call[p].last_refill_str>>

\* C19: last writer wins.  When two concurrent calls for one user read the
\* usage record before either writes and both admit, the record left by the
\* second write is the second writer's own: tokens is its post-refill usage of
\* the record it read plus its own token count, last_refill its own now; the
\* token count of the first writer is not in it (with equal timestamps and
\* limits it is the first writer's value with the second's count in the place
\* of the first's).
C19_LastWriterWins ==
    [][\A p \in Procs :
         (Decides(p) /\ call'[p].result.kind = "admit" /\ RacedWithLastWriter(p)) =>
            LET c == call[p]
                o == admitted[Len(admitted)]
                n == Len(c.token_ids)
                own == Max(0, ReadTokens(c.tokens_str)
                              - (c.now - ReadLastRefill(c.last_refill_str, c.now))
                                * c.tokens_per_minute)
                after == redis'[UsageKey(c.user_id)]
            IN  /\ after.tokens = Some(own + n * SecPerMin)
                /\ after.last_refill = Some(c.now)
                /\ (o.now = c.now /\ o.tpm = c.tokens_per_minute)
                     => Val(after.tokens) = o.stored - o.count * SecPerMin + n * SecPerMin]_vars

\* two calls that read the same record have both admitted and written: the
\* record holds the second writer's value, less than the two requests
\* together
C19_Witness ==
    /\ Len(admitted) >= 2
    /\ LET e == admitted[Len(admitted)]
           o == admitted[Len(admitted) - 1]
       IN  /\ e.user = o.user
           /\ e.seen = o.seen
           /\ e.read = o.read
           /\ e.now = o.now
           /\ e.tpm = o.tpm
           /\ redis[UsageKey(e.user)].tokens = Some(e.stored)
           /\ e.stored < (e.count + o.count) * SecPerMin
           /\ \E p \in Procs : call[p].pc = "done" /\ call[p].result.kind = "admit"

\* C20: stored usage never exceeds the limit.  Whatever the interleaving of
\* the calls and whether or not the clock went back, every tokens value written
\* to the Usage Store is between 0 and the tokens_per_minute of the call that
\* wrote it, and the record a user has in the store is the one the user's last
\* admit wrote: under a fixed limit L, 0 <= tokens_used <= L, also when the
\* calls that raced were admitted more than L tokens.
C20_StoredUsageWithinLimit ==
    /\ \A i \in 1..Len(admitted) :
          /\ admitted[i].stored >= 0
          /\ admitted[i].stored <= admitted[i].tpm * SecPerMin
    /\ \A u \in ConcUsers :
          IsSome(redis[UsageKey(u)].tokens) =>
             \E i \in AdmitsOf(u) :
                /\ \A j \in AdmitsOf(u) : j <= i
                /\ redis[UsageKey(u)].tokens = Some(admitted[i].stored)
                /\ Val(redis[UsageKey(u)].tokens) >= 0
                /\ Val(redis[UsageKey(u)].tokens) <= admitted[i].tpm * SecPerMin

\* two calls that read the same record were admitted, for one timestamp, more
\* tokens than the limit, and the record in the store holds no more than the
\* limit
C20_Witness ==
    /\ Len(admitted) >= 2
    /\ LET e == admitted[Len(admitted)]
           o == admitted[Len(admitted) - 1]
       IN  /\ e.user = o.user
           /\ e.read = o.read
           /\ e.now = o.now
           /\ e.tpm = o.tpm
           /\ e.count + o.count > e.tpm
           /\ IsSome(redis[UsageKey(e.user)].tokens)
           /\ Val(redis[UsageKey(e.user)].tokens) <= e.tpm * SecPerMin

====
